---- MODULE Spec2Model ----
(***************************************************************************)
(* A model of the ChatKit-powered assistant backend:                       *)
(*   - SQLiteStore (src/app/store.py): the threads and items tables on one  *)
(*     shared connection, with the cursor pagination of the two list reads; *)
(*   - MyChatKitServer.respond (src/app/server.py): one turn, its input     *)
(*     selection, the overrides on the shared agent, the token capture and  *)
(*     the background title task;                                           *)
(*   - the attachments table of SQLiteStore;                                *)
(*   - the event stream of a turn with the workflow of analyze_sales_data   *)
(*     (src/app/tools.py), and MyChatKitServer.action;                      *)
(*   - a conversation run turn by turn with and without its resumption      *)
(*     token, and the history window of its full-context turns;             *)
(*   - delete_thread statement by statement among the other requests of     *)
(*     the shared connection;                                               *)
(*   - upload_file (src/main.py) and LocalConverter's                       *)
(*     attachment_to_message_content (src/app/server.py).                   *)
(* A table is the sequence of its rows in rowid order: SQLite scans in      *)
(* rowid order and its ORDER BY sorter is stable, so rows with equal        *)
(* created_at come out in rowid order; INSERT OR REPLACE deletes the row    *)
(* with the same primary key and inserts the new one at the end.            *)
(* PRAGMA foreign_keys is never set, so the FOREIGN KEY ... ON DELETE       *)
(* CASCADE of the items table is not enforced.                              *)
(***************************************************************************)
EXTENDS Integers, Sequences, FiniteSets, TLC

\* ---------------------------------------------------------------- bounds
MaxLimit == 2
MaxTurns == 2
MaxItems == 2
\* the items of the long conversation: past the 15 of the history window
MaxHistory == 18
\* the bytes of an uploaded file
MaxBytes == 2

\* ------------------------------------------------------------ value sets
Users == {"A", "B"}
ThreadIds == {"t1", "t2"}
ItemIds == {"i1", "i2"}
WalkItemIds == {"i1", "i2", "i3", "i4"}
Times == {1, 2}
Limits == 1..MaxLimit
\* the limits a caller may pass: the store takes any int, 0 too
AnyLimits == 0..MaxLimit
Orders == {"asc", "desc"}
Titles == {"", "T"}
Payloads == {"p"}
\* Python's None for a cursor, a title, a token, a model, a tool choice
None == ""

\* the 15 of load_thread_items(thread.id, None, 15, "desc", context)
HistoryWindow == 15
DefaultModel == "gpt-5-mini"
Models == {"gpt-4o"}
ToolChoices == {"get_weather"}
TurnUsers == {"A"}
RunIds == {1, 2}
AttachmentIds == {"file_1", "file_2", "file_3"}
AttachmentTypes == {"image", "file"}
\* the two action types action() knows, and the one the sales widget's button sends
ActionTypes == {"apply_theme_effect", "submit_feedback", "download_report"}
ActionPayloads == {"dark", "light"}
Regions == {"Global"}
\* the ids upload_file generates, in the order it generates them
UploadIds == {"file_1", "file_2"}
\* bytes of file contents: 'A', and the two bytes of U+00E9, each invalid alone
ByteValues == {65, 195, 169}
ByteStrings == UNION {[1..n -> ByteValues] : n \in 0..MaxBytes}
\* a content type, split at its "/"
MimeTypes == {<<"image", "png">>, <<"text", "plain">>}
\* a file name, split at its last "."
FileNames == {[stem |-> "notes", suffix |-> ".txt"]}

VARIABLES
    threads,    \* the threads table, rows in rowid order
    items,      \* the items table, rows in rowid order
    walk,       \* a client walking the pages of load_thread_items
    agent,      \* the module-level my_agent: its model and model_settings.tool_choice
    turns,      \* the respond() calls, by request number
    attachments, \* the attachments table, rows in rowid order
    runs,       \* the event stream of each request, as the client receives it
    conv,       \* one long conversation and what the model's runtime keeps of it
    db,         \* the shared connection: a delete_thread under way, what is committed
    uploads     \* the uploads directory and the content last resolved from it

vars == <<threads, items, walk, agent, turns, attachments, runs, conv, db, uploads>>

\* what the store API, the cursor walk and respond()'s bookkeeping leave alone
rest == <<attachments, runs, conv, db, uploads>>

\* ------------------------------------------------------------ SQL helpers
Min(a, b) == IF a < b THEN a ELSE b

RowIds(tbl) == {tbl[k].id : k \in DOMAIN tbl}

RowOf(tbl, id) == tbl[CHOOSE k \in DOMAIN tbl : tbl[k].id = id]

\* INSERT OR REPLACE: the row with the same primary key goes, the new row
\* gets a fresh rowid (the largest)
InsertOrReplace(tbl, row) == Append(SelectSeq(tbl, LAMBDA r : r.id # row.id), row)

\* ORDER BY created_at ASC of rows given in rowid order (stable)
RECURSIVE OrderByAsc(_)
OrderByAsc(rows) ==
    IF rows = <<>> THEN <<>>
    ELSE LET m == CHOOSE k \in DOMAIN rows :
                    /\ \A j \in DOMAIN rows : rows[k].created_at <= rows[j].created_at
                    /\ \A j \in 1..(k - 1) : rows[j].created_at > rows[k].created_at
         IN  <<rows[m]>> \o OrderByAsc(SubSeq(rows, 1, m - 1) \o SubSeq(rows, m + 1, Len(rows)))

\* ORDER BY created_at DESC of rows given in rowid order (stable)
RECURSIVE OrderByDesc(_)
OrderByDesc(rows) ==
    IF rows = <<>> THEN <<>>
    ELSE LET m == CHOOSE k \in DOMAIN rows :
                    /\ \A j \in DOMAIN rows : rows[k].created_at >= rows[j].created_at
                    /\ \A j \in 1..(k - 1) : rows[j].created_at < rows[k].created_at
         IN  <<rows[m]>> \o OrderByDesc(SubSeq(rows, 1, m - 1) \o SubSeq(rows, m + 1, Len(rows)))

\* list.reverse()
Reverse(s) == [k \in 1..Len(s) |-> s[Len(s) + 1 - k]]

\* start_idx = i in place of start_idx = i + 1: the next page starts at the cursor
StartIdxAtCursor(list, after) ==
    IF after # None /\ \E k \in DOMAIN list : list[k].id = after
    THEN (CHOOSE k \in DOMAIN list :
            /\ list[k].id = after
            /\ \A j \in 1..(k - 1) : list[j].id # after) - 1
    ELSE 0

\* the cursor slice shared by load_threads and load_thread_items:
\* start_idx is one past the first element whose id is `after`, 0 when
\* `after` is None or names no element
StartIdx(list, after) ==
    IF after # None /\ \E k \in DOMAIN list : list[k].id = after
    THEN CHOOSE k \in DOMAIN list :
            /\ list[k].id = after
            /\ \A j \in 1..(k - 1) : list[j].id # after
    ELSE 0

\* list[start:stop] of Python: a negative stop counts from the end, and both
\* ends are clamped to the list
Slice(list, start, stop) ==
    LET hi == IF stop < 0 THEN (IF Len(list) + stop < 0 THEN 0 ELSE Len(list) + stop)
              ELSE Min(stop, Len(list))
    IN  SubSeq(list, start + 1, hi)

\* new_after = sliced[-1].id if sliced else None
PaginateCursorOnLastPage(list, after, limit) ==
    LET start_idx == StartIdx(list, after)
        sliced == Slice(list, start_idx, start_idx + limit)
        has_more == (start_idx + limit) < Len(list)
    IN  [status |-> "ok",
         data |-> sliced,
         has_more |-> has_more,
         after |-> IF sliced # <<>> THEN sliced[Len(sliced)].id ELSE None]

Paginate(list, after, limit) ==
    LET start_idx == StartIdx(list, after)
        sliced == Slice(list, start_idx, start_idx + limit)
        has_more == (start_idx + limit) < Len(list)
    IN  [status |-> "ok",
         data |-> sliced,
         has_more |-> has_more,
         after |-> IF sliced # <<>> /\ has_more THEN sliced[Len(sliced)].id ELSE None]

NotFound == [status |-> "NotFound", data |-> <<>>, has_more |-> FALSE, after |-> None]

\* ------------------------------------------------------ store operations
\* Each operation is a function of the tables and its arguments; the ones
\* that write return the new table.

ThreadRow(id, user_id, created_at, title, token) ==
    [id |-> id, user_id |-> user_id, created_at |-> created_at,
     title |-> title, token |-> token]

ItemRow(id, thread_id, user_id, created_at, data) ==
    [id |-> id, thread_id |-> thread_id, user_id |-> user_id,
     created_at |-> created_at, data |-> data]

\* load_thread without the user_id filter
load_thread_any_user(ths, thread_id, user) ==
    LET rows == SelectSeq(ths, LAMBDA r : r.id = thread_id)
    IN  IF rows = <<>> THEN NotFound
        ELSE [status |-> "ok", data |-> <<rows[1]>>, has_more |-> FALSE, after |-> None]

\* SELECT data FROM threads WHERE id = ? AND user_id = ?
load_thread(ths, thread_id, user) ==
    LET rows == SelectSeq(ths, LAMBDA r : r.id = thread_id /\ r.user_id = user)
    IN  IF rows = <<>> THEN NotFound
        ELSE [status |-> "ok", data |-> <<rows[1]>>, has_more |-> FALSE, after |-> None]

\* INSERT OR REPLACE INTO threads, keyed by id alone, under the caller's user id
save_thread(ths, thread, user) ==
    InsertOrReplace(ths, ThreadRow(thread.id, user, thread.created_at,
                                   thread.title, thread.token))

\* the requested order is not read: always ORDER BY created_at DESC
load_threads(ths, limit, after, order, user) ==
    Paginate(OrderByDesc(SelectSeq(ths, LAMBDA r : r.user_id = user)), after, limit)

\* two DELETEs, each filtered by the caller's user id
delete_thread_threads(ths, thread_id, user) ==
    SelectSeq(ths, LAMBDA r : ~(r.id = thread_id /\ r.user_id = user))

delete_thread_items(its, thread_id, user) ==
    SelectSeq(its, LAMBDA r : ~(r.thread_id = thread_id /\ r.user_id = user))

\* the read without its ORDER BY created_at: the rows come in rowid order
load_thread_items_rowid_order(ths, its, thread_id, after, limit, order, user) ==
    IF SelectSeq(ths, LAMBDA r : r.id = thread_id /\ r.user_id = user) = <<>>
    THEN NotFound
    ELSE LET asc == SelectSeq(its, LAMBDA r : r.thread_id = thread_id)
             list == IF order = "desc" THEN Reverse(asc) ELSE asc
         IN  Paginate(list, after, limit)

\* desc read with its own ORDER BY created_at DESC in place of items.reverse()
load_thread_items_order_by_desc(ths, its, thread_id, after, limit, order, user) ==
    IF SelectSeq(ths, LAMBDA r : r.id = thread_id /\ r.user_id = user) = <<>>
    THEN NotFound
    ELSE LET rows == SelectSeq(its, LAMBDA r : r.thread_id = thread_id)
             list == IF order = "desc" THEN OrderByDesc(rows) ELSE OrderByAsc(rows)
         IN  Paginate(list, after, limit)

\* created_at is stored as isoformat() text of a naive datetime.now() of one
\* clock, which sorts as the times do: a time is a number here
load_thread_items(ths, its, thread_id, after, limit, order, user) ==
    IF SelectSeq(ths, LAMBDA r : r.id = thread_id /\ r.user_id = user) = <<>>
    THEN NotFound
    ELSE LET asc == OrderByAsc(SelectSeq(its, LAMBDA r : r.thread_id = thread_id))
             list == IF order = "desc" THEN Reverse(asc) ELSE asc
         IN  Paginate(list, after, limit)

\* INSERT INTO items: the primary key is the item id alone; no look at threads
add_thread_item_status(its, item) ==
    IF item.id \in RowIds(its) THEN "IntegrityError" ELSE "ok"

\* the INSERT is left uncommitted and goes with the failed request
add_thread_item_uncommitted(its, thread_id, item, user) == its

\* INSERT INTO items ...; commit()
add_thread_item(its, thread_id, item, user) ==
    LET row == ItemRow(item.id, thread_id, user, item.created_at, item.data)
    IN  IF add_thread_item_status(its, item) = "ok" THEN Append(its, row) ELSE its

\* INSERT OR REPLACE INTO items; no look at threads
save_item(its, thread_id, item, user) ==
    InsertOrReplace(its, ItemRow(item.id, thread_id, user, item.created_at, item.data))

\* SELECT data FROM items WHERE id = ? AND thread_id = ?; the context is not read
load_item(its, thread_id, item_id, user) ==
    LET rows == SelectSeq(its, LAMBDA r : r.id = item_id /\ r.thread_id = thread_id)
    IN  IF rows = <<>> THEN NotFound
        ELSE [status |-> "ok", data |-> <<rows[1]>>, has_more |-> FALSE, after |-> None]

\* DELETE FROM items WHERE id = ? AND thread_id = ?; the context is not read
delete_thread_item(its, thread_id, item_id, user) ==
    SelectSeq(its, LAMBDA r : ~(r.id = item_id /\ r.thread_id = thread_id))

\* ------------------------------------------------------------------ Init
TurnIds == 1..MaxTurns

NoWalk ==
    [pc |-> "idle", user |-> None, thread |-> None, order |-> "asc", limit |-> 1,
     after |-> None, seen |-> <<>>, base |-> {}]

NoThread == ThreadRow(None, None, 0, None, None)

NoTurn ==
    [pc |-> "idle", user |-> None, thread |-> NoThread, input |-> None,
     opt_model |-> None, opt_tool |-> None,
     last_response_id |-> None, mode |-> None, inputs |-> <<>>,
     previous_response_id |-> None,
     called |-> FALSE, used_model |-> None, used_tool |-> None,
     title_task |-> "none"]

\* a request whose stream has not begun
NoRun ==
    [pc |-> "idle", user |-> None, thread |-> None, m |-> 0, tool |-> "none",
     region |-> None, tasks |-> <<>>, done |-> <<>>, events |-> <<>>,
     action |-> [type |-> None, payload |-> None]]

\* the runtime holds no conversation yet
NoConv == [chain |-> <<>>]

\* the connection after connect(): nothing pending, nothing stored, nothing read
NoDb ==
    [pc |-> "idle", thread |-> None, user |-> None,
     durable |-> [threads |-> <<>>, items |-> <<>>],
     observed |-> [thread |-> None, item |-> None, thread_present |-> TRUE]]

\* an empty uploads directory, nothing resolved
NoUploads == [dir |-> {}, resolved |-> [status |-> "none"]]

\* the agent as src/app/agent.py builds it
my_agent == [model |-> DefaultModel, tool_choice |-> None]

Init ==
    /\ threads = <<>>
    /\ items = <<>>
    /\ walk = NoWalk
    /\ agent = my_agent
    /\ turns = [r \in TurnIds |-> NoTurn]
    /\ attachments = <<>>
    /\ runs = [r \in RunIds |-> NoRun]
    /\ conv = NoConv
    /\ db = NoDb
    /\ uploads = NoUploads

\* ------------------------------------------------- store API, as actions
SaveThread(u, t, c, title) ==
    /\ threads' = save_thread(threads, ThreadRow(t, u, c, title, None), u)
    /\ UNCHANGED <<items, walk, agent, turns, rest>>

LoadThread(u, t) ==
    /\ load_thread(threads, t, u).status = "ok"
    /\ UNCHANGED vars

LoadThreads(u, limit, after, order) ==
    /\ load_threads(threads, limit, after, order, u).data # <<>>
    /\ UNCHANGED vars

DeleteThread(u, t) ==
    /\ threads' = delete_thread_threads(threads, t, u)
    /\ items' = delete_thread_items(items, t, u)
    /\ UNCHANGED <<walk, agent, turns, rest>>

LoadThreadItems(u, t, after, limit, order) ==
    /\ load_thread_items(threads, items, t, after, limit, order, u).status = "ok"
    /\ UNCHANGED vars

AddThreadItem(u, t, i, c, d) ==
    /\ add_thread_item_status(items, [id |-> i]) = "ok"
    /\ items' = add_thread_item(items, t, [id |-> i, created_at |-> c, data |-> d], u)
    /\ UNCHANGED <<threads, walk, agent, turns, rest>>

SaveItem(u, t, i, c, d) ==
    /\ items' = save_item(items, t, [id |-> i, created_at |-> c, data |-> d], u)
    /\ UNCHANGED <<threads, walk, agent, turns, rest>>

LoadItem(u, t, i) ==
    /\ load_item(items, t, i, u).status = "ok"
    /\ UNCHANGED vars

DeleteThreadItem(u, t, i) ==
    /\ items' = delete_thread_item(items, t, i, u)
    /\ UNCHANGED <<threads, walk, agent, turns, rest>>

NextStore ==
    \/ \E u \in Users, t \in ThreadIds, c \in Times, title \in Titles : SaveThread(u, t, c, title)
    \/ \E u \in Users, t \in ThreadIds : LoadThread(u, t)
    \/ \E u \in Users, l \in Limits, a \in ThreadIds \cup {None}, o \in Orders : LoadThreads(u, l, a, o)
    \/ \E u \in Users, t \in ThreadIds : DeleteThread(u, t)
    \/ \E u \in Users, t \in ThreadIds, a \in ItemIds \cup {None}, l \in Limits, o \in Orders :
            LoadThreadItems(u, t, a, l, o)
    \/ \E u \in Users, t \in ThreadIds, i \in ItemIds, c \in Times, d \in Payloads :
            AddThreadItem(u, t, i, c, d)
    \/ \E u \in Users, t \in ThreadIds, i \in ItemIds, c \in Times, d \in Payloads :
            SaveItem(u, t, i, c, d)
    \/ \E u \in Users, t \in ThreadIds, i \in ItemIds : LoadItem(u, t, i)
    \/ \E u \in Users, t \in ThreadIds, i \in ItemIds : DeleteThreadItem(u, t, i)

SpecStore == Init /\ [][NextStore]_vars

\* --------------------------------------------- a client's cursor walk
\* The client asks for the first page with no cursor, then for each next page
\* with after = the page's `after`, until has_more is false. Between two
\* pages the server appends items (created_at = datetime.now(), never before
\* an item already stored).
Ids(rows) == [k \in DOMAIN rows |-> rows[k].id]

Range(s) == {s[k] : k \in DOMAIN s}

MaxCreatedAt(its) ==
    IF its = <<>> THEN 0
    ELSE its[CHOOSE k \in DOMAIN its : \A j \in DOMAIN its : its[j].created_at <= its[k].created_at].created_at

CreateThread(u, t, c) ==
    /\ t \notin RowIds(threads)
    /\ SaveThread(u, t, c, None)

\* the N items of the thread, inserted before the walk
InsertItem(u, t, i, c) ==
    /\ walk.pc = "idle"
    /\ load_thread(threads, t, u).status = "ok"
    /\ AddThreadItem(u, t, i, c, "p")

\* an item appended while the walk is under way
AppendItem(u, t, i, c) ==
    /\ walk.pc = "walking"
    /\ load_thread(threads, t, u).status = "ok"
    /\ c >= MaxCreatedAt(items)
    /\ AddThreadItem(u, t, i, c, "p")

StartWalk(u, t, order, limit) ==
    /\ walk.pc = "idle"
    /\ LET page == load_thread_items(threads, items, t, None, limit, order, u) IN
       /\ page.status = "ok"
       /\ page.data # <<>>
       /\ walk' = [pc |-> IF page.has_more THEN "walking" ELSE "done",
                   user |-> u, thread |-> t, order |-> order, limit |-> limit,
                   after |-> page.after,
                   seen |-> Ids(page.data),
                   base |-> {items[k].id : k \in {j \in DOMAIN items : items[j].thread_id = t}}]
    /\ UNCHANGED <<threads, items, agent, turns, rest>>

NextPage ==
    /\ walk.pc = "walking"
    /\ LET page == load_thread_items(threads, items, walk.thread, walk.after,
                                     walk.limit, walk.order, walk.user) IN
       /\ page.status = "ok"
       /\ walk' = [walk EXCEPT !.pc = IF page.has_more THEN "walking" ELSE "done",
                               !.after = page.after,
                               !.seen = walk.seen \o Ids(page.data)]
    /\ UNCHANGED <<threads, items, agent, turns, rest>>

NextWalk ==
    \/ \E c \in Times : CreateThread("A", "t1", c)
    \/ \E i \in WalkItemIds, c \in Times : InsertItem("A", "t1", i, c)
    \/ \E i \in WalkItemIds, c \in Times : AppendItem("A", "t1", i, c)
    \/ \E o \in Orders, l \in Limits : StartWalk("A", "t1", o, l)
    \/ NextPage

SpecWalk == Init /\ [][NextWalk]_vars

\* ------------------------------------ a cursor walk with deletions
\* As the walk above, but between two pages the owner deletes items of the
\* thread, the one the cursor names among them.
DeleteWalkItem(u, t, i) ==
    /\ walk.pc = "walking"
    /\ i \in RowIds(items)
    /\ DeleteThreadItem(u, t, i)

NextWalkDelete ==
    \/ \E c \in Times : CreateThread("A", "t1", c)
    \/ \E i \in WalkItemIds, c \in Times : InsertItem("A", "t1", i, c)
    \/ \E i \in WalkItemIds : DeleteWalkItem("A", "t1", i)
    \/ \E o \in Orders, l \in Limits : StartWalk("A", "t1", o, l)
    \/ NextPage

SpecWalkDelete == Init /\ [][NextWalkDelete]_vars


\* ------------------------------------------------------------ one turn
\* A request reaches respond() through server.process: the thread is loaded
\* for the caller (or created, for a first message) and the new user message,
\* when there is one, is added to the thread. respond() then runs in steps,
\* one per stretch between two suspension points that matter:
\*   RespondStart  lines 133-169: input selection, overrides, Runner.run_streamed
\*   ModelCall     the run loop reads my_agent and calls the model
\*   Finish        lines 176-189: the stream is exhausted
\*   Fail, Cancel  the stream raises, or the generator is closed, mid-stream
\* and the title task of line 187 ends in TitleSave or TitleFail.
\* When respond() ends its locals are gone: an ended turn keeps only how it
\* ended and, while its title task is pending, what that task holds (the
\* thread object, the user); an ended title task leaves nothing.
InFlight == {"respond", "streaming"}
Ended == {"done", "failed", "cancelled"}

\* datetime.now(): later than every stored created_at
Now == 1 + (IF MaxCreatedAt(threads) > MaxCreatedAt(items)
            THEN MaxCreatedAt(threads) ELSE MaxCreatedAt(items))

\* the ids the store generates for request r's user message and the runtime
\* for its response
MessageId(r) == "msg_" \o ToString(r)
ResponseId(r) == "resp_" \o ToString(r)

\* `if last_response_id:` alone
InputModeTokenOnly(last_response_id, input_message) ==
    IF last_response_id # None THEN "incremental" ELSE "full"

\* `if last_response_id and input_message:`
InputMode(last_response_id, input_message) ==
    IF last_response_id # None /\ input_message # None THEN "incremental" ELSE "full"

\* lines 149-155: the overrides are written to the shared agent
ApplyOverrides(ag, opt_model, opt_tool) ==
    [model |-> IF opt_model # None THEN opt_model ELSE ag.model,
     tool_choice |-> IF opt_tool # None THEN opt_tool ELSE ag.tool_choice]

\* lines 176-178: only the tool choice is reset
ResetAfterResponse(ag) == [ag EXCEPT !.tool_choice = None]

\* the response id is written under another metadata key
CaptureTokenDropped(thread, issued) == thread

\* lines 181-182
CaptureToken(thread, issued) ==
    IF issued # None THEN [thread EXCEPT !.token = issued] ELSE thread

Request(r, u, t, inp, om, ot) ==
    /\ turns[r].pc = "idle"
    /\ \A r2 \in TurnIds : r2 < r => turns[r2].pc # "idle"
    /\ ~inp => (om = None /\ ot = None)
    /\ \/ t \notin RowIds(threads) /\ inp
       \/ load_thread(threads, t, u).status = "ok"
    /\ LET new == t \notin RowIds(threads)
           thread == IF new THEN ThreadRow(t, u, Now, None, None)
                     ELSE load_thread(threads, t, u).data[1]
           input == IF inp THEN MessageId(r) ELSE None
       IN  /\ threads' = IF new THEN save_thread(threads, thread, u) ELSE threads
           /\ items' = IF inp
                       THEN add_thread_item(items, t,
                               [id |-> input, created_at |-> Now, data |-> "user"], u)
                       ELSE items
           /\ turns' = [turns EXCEPT ![r] =
                           [NoTurn EXCEPT !.pc = "respond", !.user = u, !.thread = thread,
                                          !.input = input, !.opt_model = om, !.opt_tool = ot]]
    /\ UNCHANGED <<walk, agent, rest>>

RespondStart(r) ==
    /\ turns[r].pc = "respond"
    /\ LET tn == turns[r]
           last_response_id == tn.thread.token
           mode == InputMode(last_response_id, tn.input)
           page == load_thread_items(threads, items, tn.thread.id, None,
                                     HistoryWindow, "desc", tn.user)
       IN  IF mode = "full" /\ page.status # "ok"
           THEN /\ turns' = [turns EXCEPT ![r] = [NoTurn EXCEPT !.pc = "failed"]]
                /\ UNCHANGED agent
           ELSE /\ turns' = [turns EXCEPT
                      ![r].pc = "streaming",
                      ![r].last_response_id = last_response_id,
                      ![r].mode = mode,
                      ![r].inputs = IF mode = "incremental" THEN <<tn.input>>
                                    ELSE Ids(Reverse(page.data)),
                      ![r].previous_response_id = last_response_id]
                /\ agent' = ApplyOverrides(agent, tn.opt_model, tn.opt_tool)
    /\ UNCHANGED <<threads, items, walk, rest>>

ModelCall(r) ==
    /\ turns[r].pc = "streaming"
    /\ ~turns[r].called
    /\ turns' = [turns EXCEPT ![r].called = TRUE,
                              ![r].used_model = agent.model,
                              ![r].used_tool = agent.tool_choice]
    /\ UNCHANGED <<threads, items, walk, agent, rest>>

\* issued is result.last_response_id: the id the runtime gave the last
\* response, None when it gave none
Finish(r, issued) ==
    /\ turns[r].pc = "streaming"
    /\ turns[r].called
    /\ LET tn == turns[r]
           thread == CaptureToken(tn.thread, issued)
       IN  /\ agent' = ResetAfterResponse(agent)
           /\ threads' = IF issued # None THEN save_thread(threads, thread, tn.user)
                         ELSE threads
           /\ turns' = [turns EXCEPT ![r] =
                          IF thread.title = None /\ tn.input # None
                          THEN [NoTurn EXCEPT !.pc = "done", !.user = tn.user,
                                              !.thread = thread, !.title_task = "pending"]
                          ELSE [NoTurn EXCEPT !.pc = "done"]]
    /\ UNCHANGED <<items, walk, rest>>

\* the response id is captured and saved in a `finally:` around the stream
respond_aborted_saved(ths, thread, user) ==
    save_thread(ths, CaptureToken(thread, "resp_partial"), user)

\* lines 171-174: the stream raises, or the generator is closed at its yield;
\* the exception leaves respond() there, past lines 177-189: no save_thread,
\* no title task
respond_aborted(ths, thread, user) == ths

Fail(r) ==
    /\ turns[r].pc = "streaming"
    /\ turns' = [turns EXCEPT ![r] = [NoTurn EXCEPT !.pc = "failed"]]
    /\ threads' = respond_aborted(threads, turns[r].thread, turns[r].user)
    /\ UNCHANGED <<items, walk, agent, rest>>

Cancel(r) ==
    /\ turns[r].pc = "streaming"
    /\ turns' = [turns EXCEPT ![r] = [NoTurn EXCEPT !.pc = "cancelled"]]
    /\ threads' = respond_aborted(threads, turns[r].thread, turns[r].user)
    /\ UNCHANGED <<items, walk, agent, rest>>

TitleSave(r) ==
    /\ turns[r].title_task = "pending"
    /\ LET thread == [turns[r].thread EXCEPT !.title = "T"]
       IN  /\ threads' = save_thread(threads, thread, turns[r].user)
           /\ turns' = [turns EXCEPT ![r] = [NoTurn EXCEPT !.pc = "done"]]
    /\ UNCHANGED <<items, walk, agent, rest>>

\* the thread is saved in a `finally:` with the fallback title
title_failure_saved(ths, thread, user) ==
    save_thread(ths, [thread EXCEPT !.title = "New Conversation"], user)

\* lines 249-250, `except: pass`: the title request (line 237) or the save
\* (line 248) raised; nothing was written
title_failure(ths, thread, user) == ths

TitleFail(r) ==
    /\ turns[r].title_task = "pending"
    /\ turns' = [turns EXCEPT ![r] = [NoTurn EXCEPT !.pc = "done"]]
    /\ threads' = title_failure(threads, turns[r].thread, turns[r].user)
    /\ UNCHANGED <<items, walk, agent, rest>>

NextTurn ==
    \/ \E r \in TurnIds, u \in TurnUsers, t \in ThreadIds, inp \in BOOLEAN,
          om \in Models \cup {None}, ot \in ToolChoices \cup {None} :
            Request(r, u, t, inp, om, ot)
    \/ \E r \in TurnIds : RespondStart(r)
    \/ \E r \in TurnIds : ModelCall(r)
    \/ \E r \in TurnIds : \E issued \in {None, ResponseId(r)} : Finish(r, issued)
    \/ \E r \in TurnIds : Fail(r)
    \/ \E r \in TurnIds : Cancel(r)
    \/ \E r \in TurnIds : TitleSave(r)
    \/ \E r \in TurnIds : TitleFail(r)

SpecTurn == Init /\ [][NextTurn]_vars

\* ----------------------------------------------------------- attachments
AttachmentRow(id, user_id, data) == [id |-> id, user_id |-> user_id, data |-> data]

\* INSERT OR REPLACE INTO attachments, keyed by id alone, under the caller's user id
save_attachment(atts, attachment, user) ==
    InsertOrReplace(atts, AttachmentRow(attachment.id, user, attachment.data))

\* SELECT data FROM attachments WHERE id = ?; the context is not read
load_attachment(atts, attachment_id, user) ==
    LET rows == SelectSeq(atts, LAMBDA r : r.id = attachment_id)
    IN  IF rows = <<>> THEN NotFound
        ELSE [status |-> "ok", data |-> <<rows[1]>>, has_more |-> FALSE, after |-> None]

\* DELETE FROM attachments WHERE id = ?; the context is not read
delete_attachment(atts, attachment_id, user) ==
    SelectSeq(atts, LAMBDA r : r.id # attachment_id)

SaveAttachment(u, x, d) ==
    /\ attachments' = save_attachment(attachments, [id |-> x, data |-> d], u)
    /\ UNCHANGED <<threads, items, walk, agent, turns, runs, conv, db, uploads>>

LoadAttachment(u, x) ==
    /\ load_attachment(attachments, x, u).status = "ok"
    /\ UNCHANGED vars

DeleteAttachment(u, x) ==
    /\ attachments' = delete_attachment(attachments, x, u)
    /\ UNCHANGED <<threads, items, walk, agent, turns, runs, conv, db, uploads>>

NextAttachments ==
    \/ \E u \in Users, x \in AttachmentIds, d \in AttachmentTypes : SaveAttachment(u, x, d)
    \/ \E u \in Users, x \in AttachmentIds : LoadAttachment(u, x)
    \/ \E u \in Users, x \in AttachmentIds : DeleteAttachment(u, x)

SpecAttachments == Init /\ [][NextAttachments]_vars


\* ------------------------------------------- the event stream of a turn
\* What the client receives while respond() streams (server.py 171-174) and
\* analyze_sales_data runs (tools.py 116-203). The agent of run r intends m
\* items of its own and may call the tool once. The tool's steps are the
\* stretches between its asyncio.sleep waits. The framework around respond()
\* is not part of the repository: that it stores the item of every item.done
\* event and closes the stream with one terminal event is taken from the
\* specification (4.2 step 5, 4.3).
Event(type, index, ref) == [type |-> type, index |-> index, ref |-> ref]

CustomTask(title, status_indicator) == [title |-> title, status_indicator |-> status_indicator]

\* the ids generate_id gives the items of run r
RunItemId(r, k) == "run" \o ToString(r) \o "_" \o ToString(k)

RunItemIds(r) == {RunItemId(r, k) : k \in 1..(MaxItems + 2)}

Emit(run, evs) == [run EXCEPT !.events = run.events \o evs]

\* ctx.context.start_workflow(workflow)
start_workflow(run, tasks) ==
    [Emit(run, <<Event("workflow.started", Len(tasks), None)>>) EXCEPT !.tasks = tasks]

\* ctx.context.update_workflow_task(task, task_index): the task at that index
\* is replaced
update_workflow_task(run, task, task_index) ==
    [Emit(run, <<Event("workflow.task.updated", task_index, task.title)>>)
        EXCEPT !.tasks = [run.tasks EXCEPT ![task_index + 1] = task]]

\* ctx.context.add_workflow_task(task): the task goes to the end of the list
add_workflow_task(run, task) ==
    [Emit(run, <<Event("workflow.task.added", Len(run.tasks), task.title)>>)
        EXCEPT !.tasks = Append(run.tasks, task)]

\* ctx.context.end_workflow(summary)
end_workflow(run) == Emit(run, <<Event("workflow.ended", Len(run.tasks), None)>>)

\* an item.done event: the item is finalized
ItemDoneEvent(run, id) ==
    [Emit(run, <<Event("item.done", 0, id)>>) EXCEPT !.done = Append(run.done, id)]

\* the request reaches the server: the thread is loaded or created and the
\* agent's stream begins
BeginRun(r, u, t, m, tool, region) ==
    /\ runs[r].pc = "idle"
    /\ \A r2 \in RunIds : r2 < r => runs[r2].pc # "idle"
    /\ \/ t \notin RowIds(threads)
       \/ load_thread(threads, t, u).status = "ok"
    /\ threads' = IF t \notin RowIds(threads)
                  THEN save_thread(threads, ThreadRow(t, u, Now, None, None), u)
                  ELSE threads
    /\ runs' = [runs EXCEPT ![r] =
                   [NoRun EXCEPT !.pc = "agent", !.user = u, !.thread = t, !.m = m,
                                 !.tool = IF tool THEN "todo" ELSE "none",
                                 !.region = region]]
    /\ UNCHANGED <<items, walk, agent, turns, attachments, conv, db, uploads>>

\* the agent finalizes one of its own items; the framework stores it
AgentItemDone(r) ==
    /\ runs[r].pc = "agent"
    /\ Len(SelectSeq(runs[r].done, LAMBDA id : id \in {RunItemId(r, k) : k \in 1..MaxItems}))
          < runs[r].m
    /\ LET run == runs[r]
           k == 1 + Len(SelectSeq(run.done, LAMBDA id : id \in {RunItemId(r, j) : j \in 1..MaxItems}))
           id == RunItemId(r, k)
       IN  /\ runs' = [runs EXCEPT ![r] = ItemDoneEvent(run, id)]
           /\ items' = add_thread_item(items, run.thread,
                          [id |-> id, created_at |-> Now, data |-> "assistant"], run.user)
    /\ UNCHANGED <<threads, walk, agent, turns, attachments, conv, db, uploads>>

\* tools.py 126-138: the workflow opens with one loading task; first wait
ToolStart(r) ==
    /\ runs[r].pc = "agent"
    /\ runs[r].tool = "todo"
    /\ runs' = [runs EXCEPT ![r] =
                  [start_workflow(runs[r],
                        <<CustomTask("Initializing Database Connection...", "loading")>>)
                     EXCEPT !.pc = "sleep1", !.tool = "running"]]
    /\ UNCHANGED <<threads, items, walk, agent, turns, attachments, conv, db, uploads>>

\* tools.py 141-153: task 0 completes, task 2 is added; second wait
ToolAggregate(r) ==
    /\ runs[r].pc = "sleep1"
    /\ LET task_1 == CustomTask("Connected to Sales DB", "complete")
           task_2 == CustomTask("Aggregating records for " \o runs[r].region \o "...", "loading")
       IN  runs' = [runs EXCEPT ![r] =
                      [add_workflow_task(update_workflow_task(runs[r], task_1, 0), task_2)
                         EXCEPT !.pc = "sleep2"]]
    /\ UNCHANGED <<threads, items, walk, agent, turns, attachments, conv, db, uploads>>

\* tools.py 155-164: task 1 completes, task 3 is added; third wait
ToolFinalize(r) ==
    /\ runs[r].pc = "sleep2"
    /\ LET task_2 == CustomTask("Aggregated 14,203 records for " \o runs[r].region, "complete")
           task_3 == CustomTask("Generating Visualization...", "loading")
       IN  runs' = [runs EXCEPT ![r] =
                      [add_workflow_task(update_workflow_task(runs[r], task_2, 1), task_3)
                         EXCEPT !.pc = "sleep3"]]
    /\ UNCHANGED <<threads, items, walk, agent, turns, attachments, conv, db, uploads>>

\* tools.py 166-203: task 2 completes, the workflow ends, the summary message
\* and the chart widget are streamed, the tool returns
ToolReturn(r) ==
    /\ runs[r].pc = "sleep3"
    /\ LET run == runs[r]
           task_3 == CustomTask("Report Generated", "complete")
           message == RunItemId(r, MaxItems + 1)
           widget == RunItemId(r, MaxItems + 2)
           ended == end_workflow(update_workflow_task(run, task_3, 2))
       IN  /\ runs' = [runs EXCEPT ![r] =
                         [ItemDoneEvent(ItemDoneEvent(ended, message), widget)
                            EXCEPT !.pc = "agent", !.tool = "returned"]]
           /\ items' = add_thread_item(
                          add_thread_item(items, run.thread,
                              [id |-> message, created_at |-> Now, data |-> "assistant"],
                              run.user),
                          run.thread,
                          [id |-> widget, created_at |-> Now, data |-> "widget"], run.user)
    /\ UNCHANGED <<threads, walk, agent, turns, attachments, conv, db, uploads>>

Waiting == {"agent", "sleep1", "sleep2", "sleep3"}

\* the agent invocation fails: the exception leaves respond() at line 171 and
\* the stream closes with one error event
RunFail(r) ==
    /\ runs[r].pc \in Waiting
    /\ runs' = [runs EXCEPT ![r] =
                  [Emit(runs[r], <<Event("error", 0, None)>>) EXCEPT !.pc = "error"]]
    /\ UNCHANGED <<threads, items, walk, agent, turns, attachments, conv, db, uploads>>

\* the client disconnects: the generator is closed at the yield of line 174
\* and nothing more is sent
RunCancel(r) ==
    /\ runs[r].pc \in Waiting
    /\ runs' = [runs EXCEPT ![r].pc = "cancelled"]
    /\ UNCHANGED <<threads, items, walk, agent, turns, attachments, conv, db, uploads>>

\* the agent's stream is exhausted
RunComplete(r) ==
    /\ runs[r].pc = "agent"
    /\ runs[r].tool \in {"none", "returned"}
    /\ ~ENABLED AgentItemDone(r)
    /\ runs' = [runs EXCEPT ![r] =
                  [Emit(runs[r], <<Event("done", 0, None)>>) EXCEPT !.pc = "done"]]
    /\ UNCHANGED <<threads, items, walk, agent, turns, attachments, conv, db, uploads>>

NextStream ==
    \/ \E r \in RunIds, u \in TurnUsers, m \in 0..MaxItems, tool \in BOOLEAN, g \in Regions :
            BeginRun(r, u, "t1", m, tool, g)
    \/ \E r \in RunIds : AgentItemDone(r)
    \/ \E r \in RunIds : ToolStart(r)
    \/ \E r \in RunIds : ToolAggregate(r)
    \/ \E r \in RunIds : ToolFinalize(r)
    \/ \E r \in RunIds : ToolReturn(r)
    \/ \E r \in RunIds : RunFail(r)
    \/ \E r \in RunIds : RunCancel(r)
    \/ \E r \in RunIds : RunComplete(r)

SpecStream == Init /\ [][NextStream]_vars


\* ------------------------------------------------------ the action endpoint
ProgressUpdateEvent(text, icon) ==
    [type |-> "progress_update", index |-> 0, ref |-> None, text |-> text, icon |-> icon]

ClientEffectEvent(name, data) ==
    [type |-> "client_effect", index |-> 0, ref |-> None, name |-> name, data |-> data]

AssistantMessageItem(id, thread_id, created_at, text) ==
    [id |-> id, thread_id |-> thread_id, created_at |-> created_at,
     kind |-> "assistant_message", text |-> text]

ThreadItemDoneEvent(item) ==
    [type |-> "item.done", index |-> 0, ref |-> item.id, item |-> item]

\* `else:` in place of `elif action.type == "submit_feedback":`
action_else_branch(thread_id, act, id, now) ==
    IF act.type = "apply_theme_effect"
    THEN <<ProgressUpdateEvent("Applying new styles...", "sparkle"),
           ClientEffectEvent("update_ui_theme", act.payload),
           ThreadItemDoneEvent(
               AssistantMessageItem(id, thread_id, now, "Theme updated successfully!"))>>
    ELSE <<ThreadItemDoneEvent(
               AssistantMessageItem(id, thread_id, now, "Feedback received. Thank you!"))>>

\* MyChatKitServer.action: the events it yields, in order
action(thread_id, act, id, now) ==
    IF act.type = "apply_theme_effect"
    THEN <<ProgressUpdateEvent("Applying new styles...", "sparkle"),
           ClientEffectEvent("update_ui_theme", act.payload),
           ThreadItemDoneEvent(
               AssistantMessageItem(id, thread_id, now, "Theme updated successfully!"))>>
    ELSE IF act.type = "submit_feedback"
    THEN <<ThreadItemDoneEvent(
               AssistantMessageItem(id, thread_id, now, "Feedback received. Thank you!"))>>
    ELSE <<>>

\* a thread for the widget that sends the action
OpenThread(u, t) ==
    /\ t \notin RowIds(threads)
    /\ threads' = save_thread(threads, ThreadRow(t, u, Now, None, None), u)
    /\ UNCHANGED <<items, walk, agent, turns, attachments, runs, conv, db, uploads>>

\* an action request on a thread of the caller: action() is run to its end;
\* the item of each item.done event it yields is stored, as for a turn
ActionRequest(r, u, t, type, payload) ==
    /\ runs[r].pc = "idle"
    /\ \A r2 \in RunIds : r2 < r => runs[r2].pc # "idle"
    /\ load_thread(threads, t, u).status = "ok"
    /\ LET act == [type |-> type, payload |-> payload]
           evs == action(t, act, RunItemId(r, 1), Now)
           done == SelectSeq(evs, LAMBDA e : e.type = "item.done")
       IN  /\ runs' = [runs EXCEPT ![r] =
                         [NoRun EXCEPT !.pc = "acted", !.user = u, !.thread = t,
                                       !.action = act, !.events = evs,
                                       !.done = [k \in DOMAIN done |-> done[k].ref]]]
           /\ items' = IF done = <<>> THEN items
                       ELSE add_thread_item(items, t,
                               [id |-> done[1].item.id, created_at |-> done[1].item.created_at,
                                data |-> "assistant"], u)
    /\ UNCHANGED <<threads, walk, agent, turns, attachments, conv, db, uploads>>

NextAction ==
    \/ \E u \in TurnUsers, t \in ThreadIds : OpenThread(u, t)
    \/ \E r \in RunIds, u \in TurnUsers, t \in ThreadIds, type \in ActionTypes,
          payload \in ActionPayloads : ActionRequest(r, u, t, type, payload)

SpecAction == Init /\ [][NextAction]_vars


\* ------------------------------- resumption: a conversation, turn by turn
\* One thread, one user. Each turn brings a user message; respond() chooses
\* its input (lines 133-146) and hands it to the runtime with
\* previous_response_id (line 167). Under a response id the runtime keeps the
\* conversation of that response: what the agent was given and what it
\* answered (conv.chain, for the id the thread carries). The agent is a stub:
\* its answer is a function of the conversation it is given.
HistId(k) == "h" \o ToString(k)

\* server.py 137-146: what respond() sends, as item ids in the order sent
agent_inputs(ths, its, thread_id, last_response_id, input_message, user) ==
    IF InputMode(last_response_id, input_message) = "incremental"
    THEN <<input_message>>
    ELSE Ids(Reverse(load_thread_items(ths, its, thread_id, None,
                                       HistoryWindow, "desc", user).data))

\* the conversation the agent answers: the one kept under
\* previous_response_id, when there is one, then the input
RuntimeContext(previous_response_id, chain, inputs) ==
    IF previous_response_id # None THEN chain \o inputs ELSE inputs

\* the deterministic stub: its answer tells where the conversation it was
\* given begins and how long it is
StubOutput(context) == [first |-> context[1], len |-> Len(context)]

\* the user message of the next turn, stored before respond() is called
WithUserMessage(its, thread_id, user) ==
    add_thread_item(its, thread_id,
        [id |-> HistId(Len(its) + 1), created_at |-> Len(its) + 1, data |-> "user"], user)

\* the conversation given to the agent in the next turn of a thread that
\* carries last_response_id
TurnContext(ths, its, thread_id, last_response_id, chain, user) ==
    LET its1 == WithUserMessage(its, thread_id, user)
        inputs == agent_inputs(ths, its1, thread_id, last_response_id,
                               HistId(Len(its) + 1), user)
    IN  RuntimeContext(last_response_id, chain, inputs)

\* the items stored once that turn has completed
TurnItems(ths, its, thread_id, last_response_id, chain, user) ==
    LET its1 == WithUserMessage(its, thread_id, user)
        context == TurnContext(ths, its, thread_id, last_response_id, chain, user)
    IN  add_thread_item(its1, thread_id,
            [id |-> HistId(Len(its) + 2), created_at |-> Len(its) + 2,
             data |-> StubOutput(context)], user)

ThreadToken(ths, thread_id) ==
    IF thread_id \in RowIds(ths) THEN RowOf(ths, thread_id).token ELSE None

\* a turn that completes: the answer is stored, the new response id is saved
\* on the thread, and the runtime keeps the conversation under it
ResumeTurn(u, t) ==
    /\ Len(items) + 2 <= MaxHistory
    /\ LET ths1 == IF t \in RowIds(threads) THEN threads
                   ELSE save_thread(threads, ThreadRow(t, u, 0, None, None), u)
           token == ThreadToken(ths1, t)
           context == TurnContext(ths1, items, t, token, conv.chain, u)
           answer == HistId(Len(items) + 2)
       IN  /\ items' = TurnItems(ths1, items, t, token, conv.chain, u)
           /\ threads' = save_thread(ths1,
                            CaptureToken(RowOf(ths1, t), "resp_" \o ToString(Len(items) + 2)), u)
           /\ conv' = [chain |-> Append(context, answer)]
    /\ UNCHANGED <<walk, agent, turns, attachments, runs, db, uploads>>

\* a turn whose agent invocation fails before anything is finalized: the user
\* message stays stored, the thread keeps the response id it had
ResumeTurnFails(u, t) ==
    /\ Len(items) + 1 <= MaxHistory
    /\ threads' = IF t \in RowIds(threads) THEN threads
                  ELSE save_thread(threads, ThreadRow(t, u, 0, None, None), u)
    /\ items' = WithUserMessage(items, t, u)
    /\ UNCHANGED <<walk, agent, turns, attachments, runs, conv, db, uploads>>

NextResume ==
    \/ \E u \in TurnUsers : ResumeTurn(u, "t1")
    \/ \E u \in TurnUsers : ResumeTurnFails(u, "t1")

SpecResume == Init /\ [][NextResume]_vars


\* ------------------------------- the history window of a full-context turn
\* The conversation of SpecResume, with stored items saved again: save_item is
\* INSERT OR REPLACE, so the row keeps its created_at and moves to the end of
\* rowid order, and the table is no longer in creation order. An item is saved
\* again while the table lies in creation order (one moved row at a time).
InCreationOrder(its) ==
    \A k \in 1..(Len(its) - 1) : its[k].created_at < its[k + 1].created_at

\* store.py 145-150, for an item already stored, with the content it has
ResaveItem(u, t, k) ==
    /\ k \in DOMAIN items
    /\ items[k].thread_id = t
    /\ InCreationOrder(items)
    /\ items' = save_item(items, t,
                    [id |-> items[k].id, created_at |-> items[k].created_at,
                     data |-> items[k].data], u)
    /\ UNCHANGED <<threads, walk, agent, turns, attachments, runs, conv, db, uploads>>

\* a turn that completes on a thread without a response id: full-context mode
FullContextTurn(u, t) ==
    /\ ThreadToken(threads, t) = None
    /\ ResumeTurn(u, t)

NextWindow ==
    \/ \E u \in TurnUsers : FullContextTurn(u, "t1")
    \/ \E u \in TurnUsers : ResumeTurnFails(u, "t1")
    \/ \E u \in TurnUsers, k \in 1..MaxHistory : ResaveItem(u, "t1", k)

SpecWindow == Init /\ [][NextWindow]_vars


\* ------------------------------- delete_thread on the shared connection
\* delete_thread is three awaits on the one connection (store.py 100-102):
\* DELETE FROM threads, DELETE FROM items, commit. Every await gives the event
\* loop to other requests, whose statements run on the same connection: they
\* read what is pending, and their commit() commits it. threads and items are
\* what the connection sees; db.durable is what the last commit left. The
\* other operations here keep every item under a thread of its writer.
Committed(ths, its) == [threads |-> ths, items |-> its]

\* save_thread of a new thread: execute and commit
DbSaveThread(u, t, c) ==
    /\ t \notin RowIds(threads)
    /\ threads' = save_thread(threads, ThreadRow(t, u, c, None, None), u)
    /\ db' = [db EXCEPT !.durable = Committed(threads', items)]
    /\ UNCHANGED <<items, walk, agent, turns, attachments, runs, conv, uploads>>

\* add_thread_item to a thread of the caller: execute and commit
DbAddThreadItem(u, t, i, c) ==
    /\ load_thread(threads, t, u).status = "ok"
    /\ add_thread_item_status(items, [id |-> i]) = "ok"
    /\ items' = add_thread_item(items, t, [id |-> i, created_at |-> c, data |-> "p"], u)
    /\ db' = [db EXCEPT !.durable = Committed(threads, items')]
    /\ UNCHANGED <<threads, walk, agent, turns, attachments, runs, conv, uploads>>

\* load_item by another request: what it found, and whether the thread of
\* the item was there
DbLoadItem(u, t, i) ==
    /\ load_item(items, t, i, u).status = "ok"
    /\ db' = [db EXCEPT !.observed =
                 [thread |-> t, item |-> i, thread_present |-> t \in RowIds(threads)]]
    /\ UNCHANGED <<threads, items, walk, agent, turns, attachments, runs, conv, uploads>>

\* store.py 100: DELETE FROM threads WHERE id = ? AND user_id = ?
DeleteThreadBegin(u, t) ==
    /\ db.pc = "idle"
    /\ threads' = delete_thread_threads(threads, t, u)
    /\ db' = [db EXCEPT !.pc = "threads_deleted", !.thread = t, !.user = u]
    /\ UNCHANGED <<items, walk, agent, turns, attachments, runs, conv, uploads>>

\* store.py 101: DELETE FROM items WHERE thread_id = ? AND user_id = ?
DeleteThreadItems ==
    /\ db.pc = "threads_deleted"
    /\ items' = delete_thread_items(items, db.thread, db.user)
    /\ db' = [db EXCEPT !.pc = "items_deleted"]
    /\ UNCHANGED <<threads, walk, agent, turns, attachments, runs, conv, uploads>>

\* store.py 102: commit()
DeleteThreadCommit ==
    /\ db.pc = "items_deleted"
    /\ db' = [db EXCEPT !.pc = "idle", !.thread = None, !.user = None,
                        !.durable = Committed(threads, items)]
    /\ UNCHANGED <<threads, items, walk, agent, turns, attachments, runs, conv, uploads>>

NextDelete ==
    \/ \E u \in Users, t \in ThreadIds, c \in Times : DbSaveThread(u, t, c)
    \/ \E u \in Users, t \in ThreadIds, i \in ItemIds, c \in Times : DbAddThreadItem(u, t, i, c)
    \/ \E u \in Users, t \in ThreadIds, i \in ItemIds : DbLoadItem(u, t, i)
    \/ \E u \in Users, t \in ThreadIds : DeleteThreadBegin(u, t)
    \/ DeleteThreadItems
    \/ DeleteThreadCommit

SpecDelete == Init /\ [][NextDelete]_vars


\* --------------------------------- uploads and attachment resolution
\* uploads.dir is the uploads directory: a set of files [stem, suffix, bytes].
\* uploads.resolved is what attachment_to_message_content last returned:
\* [status |-> "ok", content |-> ...], or [status |-> "raised"] when it raised.
Attachment(id, type, mime_type, name) ==
    [id |-> id, type |-> type, mime_type |-> mime_type, name |-> name]

File(stem, suffix, bytes) == [stem |-> stem, suffix |-> suffix, bytes |-> bytes]

\* str.startswith("image/") on a content type
IsImageMime(mime_type) == mime_type[1] = "image"

\* bytes.decode("utf-8"): [ok |-> TRUE, text |-> the code points], or
\* [ok |-> FALSE] where Python raises UnicodeDecodeError
IsContinuation(b) == 128 <= b /\ b <= 191

RECURSIVE Utf8Decode(_)
Utf8Decode(bytes) ==
    IF bytes = <<>> THEN [ok |-> TRUE, text |-> <<>>]
    ELSE LET b == bytes[1]
             n == IF b < 128 THEN 1
                  ELSE IF 194 <= b /\ b <= 223 THEN 2
                  ELSE IF 224 <= b /\ b <= 239 THEN 3
                  ELSE IF 240 <= b /\ b <= 244 THEN 4
                  ELSE 0
             wellFormed ==
                 /\ n > 0
                 /\ Len(bytes) >= n
                 /\ \A k \in 2..n : IsContinuation(bytes[k])
                 /\ b = 224 => bytes[2] >= 160
                 /\ b = 237 => bytes[2] <= 159
                 /\ b = 240 => bytes[2] >= 144
                 /\ b = 244 => bytes[2] <= 143
         IN  IF ~wellFormed THEN [ok |-> FALSE]
             ELSE LET cp == IF n = 1 THEN b
                            ELSE IF n = 2 THEN (b - 192) * 64 + (bytes[2] - 128)
                            ELSE IF n = 3 THEN (b - 224) * 4096 + (bytes[2] - 128) * 64
                                               + (bytes[3] - 128)
                            ELSE (b - 240) * 262144 + (bytes[2] - 128) * 4096
                                 + (bytes[3] - 128) * 64 + (bytes[4] - 128)
                      tail == Utf8Decode(SubSeq(bytes, n + 1, Len(bytes)))
                  IN  IF tail.ok THEN [ok |-> TRUE, text |-> <<cp>> \o tail.text]
                      ELSE [ok |-> FALSE]

\* base64.b64encode(bytes): the 6-bit digits, 64 standing for the pad "="
RECURSIVE b64encode(_)
b64encode(bytes) ==
    IF bytes = <<>> THEN <<>>
    ELSE LET n == Min(3, Len(bytes))
             v == bytes[1] * 65536
                  + (IF n >= 2 THEN bytes[2] * 256 ELSE 0)
                  + (IF n >= 3 THEN bytes[3] ELSE 0)
             d == <<v \div 262144, (v \div 4096) % 64, (v \div 64) % 64, v % 64>>
             group == IF n = 3 THEN d
                      ELSE IF n = 2 THEN <<d[1], d[2], d[3], 64>>
                      ELSE <<d[1], d[2], 64, 64>>
         IN  group \o b64encode(SubSeq(bytes, n + 1, Len(bytes)))

\* ResponseInputTextParam / ResponseInputImageParam
InputText(text) == [type |-> "input_text", text |-> text]

InputImage(mime_type, b64) ==
    [type |-> "input_image", detail |-> "auto",
     image_url |-> <<"data:", mime_type, ";base64,", b64>>]

Returned(content) == [status |-> "ok", content |-> content]

Raised == [status |-> "raised"]

\* the text branch without its try/except: the UnicodeDecodeError leaves the
\* converter
attachment_to_message_content_unguarded(dir, attachment) ==
    IF ~\E f \in dir : f.stem = attachment.id
    THEN Returned(InputText(<<"[File not found]">>))
    ELSE LET file_path == CHOOSE f \in dir : f.stem = attachment.id
             file_bytes == file_path.bytes
         IN  IF attachment.type = "image" \/ IsImageMime(attachment.mime_type)
             THEN Returned(InputImage(attachment.mime_type, b64encode(file_bytes)))
             ELSE IF Utf8Decode(file_bytes).ok
             THEN Returned(InputText(<<"\n[File ", attachment.name, "]:\n",
                                       Utf8Decode(file_bytes).text, "\n">>))
             ELSE Raised

\* server.py 76-103
attachment_to_message_content(dir, attachment) ==
    IF ~\E f \in dir : f.stem = attachment.id
    THEN Returned(InputText(<<"[File not found]">>))
    ELSE LET file_path == CHOOSE f \in dir : f.stem = attachment.id
             file_bytes == file_path.bytes
         IN  IF attachment.type = "image" \/ IsImageMime(attachment.mime_type)
             THEN Returned(InputImage(attachment.mime_type, b64encode(file_bytes)))
             ELSE IF Utf8Decode(file_bytes).ok
             THEN Returned(InputText(<<"\n[File ", attachment.name, "]:\n",
                                       Utf8Decode(file_bytes).text, "\n">>))
             ELSE Returned(InputText(<<"[Binary file ", attachment.name, "]">>))

\* main.py 74: file_id = f"file_{uuid4().hex}", an id no upload had before:
\* the k-th upload gets the k-th id
NewFileId(dir) == "file_" \o ToString(Cardinality(dir) + 1)

\* main.py 72-111: the file is written as <file_id><ext>, the attachment is an
\* ImageAttachment when the content type starts with "image/", and it is saved
Upload(u, filename, content_type, bytes) ==
    /\ NewFileId(uploads.dir) \in UploadIds
    /\ LET file_id == NewFileId(uploads.dir)
           is_image == IsImageMime(content_type)
           attachment == Attachment(file_id, IF is_image THEN "image" ELSE "file",
                                    content_type, filename)
       IN  /\ uploads' = [uploads EXCEPT
                            !.dir = @ \cup {File(file_id, filename.suffix, bytes)}]
           /\ attachments' = save_attachment(attachments,
                                [id |-> attachment.id, data |-> attachment.type], u)
    /\ UNCHANGED <<threads, items, walk, agent, turns, runs, conv, db>>

\* the converter resolves the attachment of a user message; its file may or
\* may not be in the uploads directory
Resolve(attachment) ==
    /\ uploads' = [uploads EXCEPT
                     !.resolved = attachment_to_message_content(uploads.dir, attachment)]
    /\ UNCHANGED <<threads, items, walk, agent, turns, attachments, runs, conv, db>>

NextResolve ==
    \/ \E u \in TurnUsers, n \in FileNames, m \in MimeTypes, b \in ByteStrings :
          Upload(u, n, m, b)
    \/ \E x \in AttachmentIds, type \in AttachmentTypes, m \in MimeTypes,
          n \in FileNames : Resolve(Attachment(x, type, m, n))

SpecResolve == Init /\ [][NextResolve]_vars


\* ------------------------------------------------------- store: claims
\* C1: every item operation re-validates thread ownership: for a thread owned
\* by another user, add_thread_item, save_item, load_item and
\* delete_thread_item fail with NotFound and leave the items unchanged.
C1_ItemOpsRevalidateOwnership ==
    [][\A k \in DOMAIN threads : \A u \in Users \ {threads[k].user_id} :
          LET t == threads[k].id IN
          /\ \A i \in ItemIds : load_item(items, t, i, u).status = "NotFound"
          /\ \A i \in ItemIds, c \in Times, d \in Payloads :
                (AddThreadItem(u, t, i, c, d) \/ SaveItem(u, t, i, c, d)) => UNCHANGED items
          /\ \A i \in ItemIds : DeleteThreadItem(u, t, i) => UNCHANGED items]_vars

\* C2: tenant isolation on reads: for a thread whose stored owner is not the
\* caller, load_thread and load_thread_items raise NotFound and no page of
\* load_threads holds the thread.
C2_TenantIsolationOnReads ==
    \A k \in DOMAIN threads : \A u \in Users \ {threads[k].user_id} :
        LET t == threads[k].id IN
        /\ load_thread(threads, t, u).status = "NotFound"
        /\ \A a \in ItemIds \cup {None}, l \in Limits, o \in Orders :
              load_thread_items(threads, items, t, a, l, o, u).status = "NotFound"
        /\ \A a \in ThreadIds \cup {None}, l \in Limits, o \in Orders :
              LET page == load_threads(threads, l, a, o, u)
              IN  \A j \in DOMAIN page.data : page.data[j].id # t

\* a thread of A that holds an item, while B has a thread of their own to list
C2_Witness ==
    \E k \in DOMAIN threads :
        /\ threads[k].user_id = "A"
        /\ \E j \in DOMAIN items : items[j].thread_id = threads[k].id
        /\ load_thread(threads, threads[k].id, "B").status = "NotFound"
        /\ load_thread(threads, threads[k].id, "A").status = "ok"
        /\ load_threads(threads, 1, None, "desc", "B").data # <<>>

\* C3: once a thread id is saved by its owner, a save_thread made with another
\* user's context changes neither its stored owner nor its title or metadata,
\* and the owner still loads their last saved value.
C3_ForeignSaveKeepsThread ==
    [][\A k \in DOMAIN threads : \A u \in Users \ {threads[k].user_id} :
          \A c \in Times, title \in Titles :
              SaveThread(u, threads[k].id, c, title) =>
                  /\ RowOf(threads', threads[k].id) = threads[k]
                  /\ load_thread(threads', threads[k].id, threads[k].user_id).data
                        = <<threads[k]>>]_vars

\* ------------------------------------------------------- walk: claims
CreatedAtOf(id) == RowOf(items, id).created_at

NoDuplicates(s) == \A j, k \in DOMAIN s : j # k => s[j] # s[k]

InRequestedOrder(s, order) ==
    \A j, k \in DOMAIN s : j < k =>
        IF order = "desc" THEN CreatedAtOf(s[j]) >= CreatedAtOf(s[k])
        ELSE CreatedAtOf(s[j]) <= CreatedAtOf(s[k])

\* the thread's ids as one unpaged read in the walk's order returns them
Listing ==
    LET asc == Ids(OrderByAsc(SelectSeq(items, LAMBDA r : r.thread_id = walk.thread)))
    IN  IF walk.order = "desc" THEN Reverse(asc) ELSE asc

\* the pages issued so far are one unbroken run of the present listing
SeenIsContiguous ==
    \E off \in 0..(Len(Listing) - Len(walk.seen)) :
        /\ SubSeq(Listing, off + 1, off + Len(walk.seen)) = walk.seen
        /\ \A k \in 1..off : Listing[k] \notin walk.base

Started(r) == turns[r].pc = "streaming"

\* C5: at most one respond() turn per thread is in flight: no two turns of
\* the same thread are between their start and their completion together.
C5_AtMostOneInFlightPerThread ==
    \A r1, r2 \in TurnIds :
        (r1 # r2 /\ turns[r1].pc \in InFlight /\ turns[r2].pc \in InFlight)
            => turns[r1].thread.id # turns[r2].thread.id

\* C6: when a turn that carried inference options ends (by completion, by an
\* agent failure or by cancellation), the shared agent's model and tool
\* choice are back at their values from before the turn. Stated for a turn
\* that runs alone and first, whose pre-turn values are those of my_agent.
C6_OverridesResetAfterTurn ==
    [][\A r \in TurnIds :
          (/\ Started(r)
           /\ turns'[r].pc \in Ended
           /\ \A r2 \in TurnIds \ {r} : turns[r2].pc = "idle"
           /\ (turns[r].opt_model # None \/ turns[r].opt_tool # None))
              => agent' = my_agent]_vars

\* C7: when turns on different threads interleave, each turn's model call runs
\* with the model and tool choice of its own inference options (the agent's
\* defaults where it carries none), never with another turn's.
C7_NoLeakAcrossConcurrentTurns ==
    \A r \in TurnIds :
        (/\ Started(r)
         /\ turns[r].called
         /\ \A r2 \in TurnIds \ {r} :
               /\ turns[r2].pc \in InFlight \cup {"idle"}
               /\ turns[r2].pc \in InFlight => turns[r2].thread.id # turns[r].thread.id)
            => /\ turns[r].used_model =
                     (IF turns[r].opt_model # None THEN turns[r].opt_model ELSE my_agent.model)
               /\ turns[r].used_tool =
                     (IF turns[r].opt_tool # None THEN turns[r].opt_tool
                      ELSE my_agent.tool_choice)

ThreadItemIds(its, t) == {its[k].id : k \in {j \in DOMAIN its : its[j].thread_id = t}}

\* C8: input-mode selection: respond() sends only the new user message exactly
\* when the thread carries a last_response_id and an input message is present;
\* in every other case it sends the history loaded from the store.
C8_InputModeSelection ==
    [][\A r \in TurnIds :
          (turns[r].pc = "respond" /\ turns'[r].pc = "streaming") =>
              IF turns[r].thread.token # None /\ turns[r].input # None
              THEN /\ turns'[r].mode = "incremental"
                   /\ turns'[r].inputs = <<turns[r].input>>
              ELSE /\ turns'[r].mode = "full"
                   /\ Range(turns'[r].inputs) = ThreadItemIds(items, turns[r].thread.id)
                   /\ NoDuplicates(turns'[r].inputs)]_vars

\* a turn that found a token on its thread and brought a message: incremental
C8_Witness ==
    \E r \in TurnIds :
        /\ Started(r)
        /\ turns[r].thread.token # None /\ turns[r].input # None
        /\ turns[r].mode = "incremental"
        /\ turns[r].inputs = <<turns[r].input>>

\* C9: the resumption token is handed to the agent only in incremental mode:
\* a turn in full-context mode invokes the agent without a previous-response
\* token.
C9_TokenOnlyInIncrementalMode ==
    \A r \in TurnIds :
        (Started(r) /\ turns[r].mode = "full") => turns[r].previous_response_id = None

\* C10: token capture: when the stream of a turn is exhausted and the runtime
\* issued a response id, the stored thread carries that id as last_response_id
\* when respond() returns; when it issued none, the stored threads are as they
\* were.
C10_TokenCapture ==
    [][\A r \in TurnIds : \A issued \in {None, ResponseId(r)} :
          (Started(r) /\ turns'[r].pc = "done" /\ Finish(r, issued)) =>
              IF issued # None
              THEN /\ turns[r].thread.id \in RowIds(threads')
                   /\ RowOf(threads', turns[r].thread.id).token = issued
              ELSE threads' = threads]_vars

\* a completed turn whose response id is the stored token
C10_Witness ==
    \E r \in TurnIds :
        /\ turns[r].pc = "done"
        /\ \E k \in DOMAIN threads : threads[k].token = ResponseId(r)

\* ------------------------------------------------------ stream: claims
Positions(ev, type) == {k \in DOMAIN ev : ev[k].type = type}

Terminal == {"done", "error"}

RunEnded == {"done", "error", "cancelled"}

\* the tasks in the workflow just before event k: those it started with and
\* those added since
TasksBefore(ev, k) ==
    Cardinality({j \in 1..(k - 1) : ev[j].type = "workflow.task.added"})
        + (IF Positions(ev, "workflow.started") = {} THEN 0
           ELSE ev[CHOOSE j \in Positions(ev, "workflow.started") : TRUE].index)

WorkflowWellFormed(ev) ==
    /\ Cardinality(Positions(ev, "workflow.started")) = 1
    /\ Cardinality(Positions(ev, "workflow.ended")) = 1
    /\ \A s \in Positions(ev, "workflow.started"), e \in Positions(ev, "workflow.ended") :
          /\ s < e
          /\ \A k \in Positions(ev, "workflow.task.added") \cup Positions(ev, "workflow.task.updated") :
                s < k /\ k < e
          /\ \A k \in DOMAIN ev : ev[k].type \in Terminal => e < k
    /\ \A k \in Positions(ev, "workflow.task.updated") : ev[k].index < TasksBefore(ev, k)
    /\ \A k \in Positions(ev, "workflow.task.added") : ev[k].index = TasksBefore(ev, k)

\* C11: workflow well-formedness: when a turn in which analyze_sales_data
\* opened a workflow has ended (by completion, by an agent failure or by
\* cancellation during one of the tool's waits), its events hold exactly one
\* workflow start, then task adds and updates whose index names a task already
\* in the workflow and that leave earlier tasks in place, then exactly one
\* workflow end, and the workflow end comes before the terminal event.
C11_WorkflowWellFormedness ==
    \A r \in RunIds :
        (runs[r].pc \in RunEnded /\ Positions(runs[r].events, "workflow.started") # {})
            => WorkflowWellFormed(runs[r].events)

StoredOf(r) == {items[k].id : k \in {j \in DOMAIN items : items[j].id \in RunItemIds(r)}}

C13_DeleteThreadCascades ==
    [][\A k \in DOMAIN threads :
          DeleteThread(threads[k].user_id, threads[k].id) =>
              /\ threads[k].id \notin RowIds(threads')
              /\ \A j \in DOMAIN items' : items'[j].thread_id # threads[k].id]_vars

\* the thread ids of a user, newest first: the listing load_threads pages
ThreadListing(u) == OrderByDesc(SelectSeq(threads, LAMBDA r : r.user_id = u))

\* the items of a thread in the order asked for: the listing load_thread_items pages
ItemListing(t, order) ==
    LET asc == OrderByAsc(SelectSeq(items, LAMBDA r : r.thread_id = t))
    IN  IF order = "desc" THEN Reverse(asc) ELSE asc

\* the page of a listing read from the cursor `after`
PageCursorOK(page, listing, after) ==
    /\ page.has_more => /\ page.data # <<>>
                        /\ page.after = page.data[Len(page.data)].id
    /\ ~page.has_more => page.after = None
    /\ page.has_more <=> (StartIdx(listing, after) + Len(page.data) < Len(listing))

PageCursorsOK(limits) ==
    /\ \A u \in Users, l \in limits, a \in ThreadIds \cup {None}, o \in Orders :
          PageCursorOK(load_threads(threads, l, a, o, u), ThreadListing(u), a)
    /\ \A k \in DOMAIN threads : \A l \in limits, a \in ItemIds \cup {None}, o \in Orders :
          PageCursorOK(load_thread_items(threads, items, threads[k].id, a, l, o,
                                         threads[k].user_id),
                       ItemListing(threads[k].id, o), a)

\* C14 as first stated: with any limit and any cursor, the page of load_threads
\* and of load_thread_items has `after` equal to the id of its last element
\* whenever has_more is true and null whenever it is false, and has_more is
\* true exactly when elements remain after the returned slice.
C14_PageCursorAnyLimit == PageCursorsOK(AnyLimits)

\* C14: the same for every limit of at least 1 and any cursor.
C14_PageCursor == PageCursorsOK(Limits)

\* A lists two threads and a thread holds two items: a first page of one with
\* more to come, and a last page
C14_Witness ==
    /\ LET page == load_threads(threads, 1, None, "desc", "A")
       IN  page.has_more /\ page.after = page.data[1].id
    /\ \E k \in DOMAIN threads :
          LET t == threads[k].id
              first == load_thread_items(threads, items, t, None, 1, "asc", threads[k].user_id)
              last == load_thread_items(threads, items, t, first.after, 1, "asc",
                                        threads[k].user_id)
          IN  /\ first.has_more /\ first.after = first.data[1].id
              /\ last.data # <<>> /\ ~last.has_more /\ last.after = None

\* all pages of load_thread_items, from the first to the one with has_more
\* false, each next page asked with the `after` of the one before
RECURSIVE AllPages(_, _, _, _, _)
AllPages(t, after, limit, order, user) ==
    LET page == load_thread_items(threads, items, t, after, limit, order, user)
    IN  IF page.has_more THEN page.data \o AllPages(t, page.after, limit, order, user)
        ELSE page.data

NonDecreasing(rows) ==
    \A j, k \in DOMAIN rows : j < k => rows[j].created_at <= rows[k].created_at

\* C15: creation order is preserved on every read, whatever the direction: for
\* every thread state, all pages of load_thread_items with order 'desc', one
\* after the other, are the exact reverse of all pages with order 'asc', and
\* the 'asc' sequence is non-decreasing in created_at.
C15_DescIsReverseOfAsc ==
    \A k \in DOMAIN threads : \A la, ld \in Limits :
        LET t == threads[k].id
            u == threads[k].user_id
            asc == AllPages(t, None, la, "asc", u)
            desc == AllPages(t, None, ld, "desc", u)
        IN  /\ desc = Reverse(asc)
            /\ NonDecreasing(asc)
            /\ Range(asc) = {items[j] : j \in {i \in DOMAIN items : items[i].thread_id = t}}

\* a thread with two items of the same created_at, read in pages of one
C15_Witness ==
    \E k \in DOMAIN threads :
        LET asc == AllPages(threads[k].id, None, 1, "asc", threads[k].user_id)
            desc == AllPages(threads[k].id, None, 1, "desc", threads[k].user_id)
        IN  /\ Len(asc) = 2
            /\ asc[1].created_at = asc[2].created_at
            /\ desc = <<asc[2], asc[1]>>

C17_AttachmentTenantIsolation ==
    [][\A k \in DOMAIN attachments : \A u \in Users \ {attachments[k].user_id} :
          LET x == attachments[k].id IN
          /\ load_attachment(attachments, x, u).status = "NotFound"
          /\ (\/ DeleteAttachment(u, x)
              \/ \E d \in AttachmentTypes : SaveAttachment(u, x, d))
                => /\ x \in RowIds(attachments')
                   /\ RowOf(attachments', x) = attachments[k]]_vars

\* ------------------------------------------------------ action: claims
IsConfirmation(e, t, text) ==
    /\ e.type = "item.done"
    /\ e.item.kind = "assistant_message"
    /\ e.item.thread_id = t
    /\ e.item.text = text

\* C18: action 'apply_theme_effect' emits, in this order, a progress update,
\* one client effect named update_ui_theme that carries the action's payload
\* unchanged, and one item-done event with a confirmation assistant message;
\* action 'submit_feedback' emits exactly one item-done event with a
\* confirmation assistant message; every other action type ('download_report'
\* of the sales widget too) emits no event and changes no state.
C18_ActionEndpoint ==
    [][\A r \in RunIds, u \in TurnUsers, t \in ThreadIds, type \in ActionTypes,
          payload \in ActionPayloads :
          ActionRequest(r, u, t, type, payload) =>
              LET ev == runs'[r].events IN
              CASE type = "apply_theme_effect" ->
                      /\ Len(ev) = 3
                      /\ ev[1].type = "progress_update"
                      /\ ev[2].type = "client_effect"
                      /\ ev[2].name = "update_ui_theme"
                      /\ ev[2].data = payload
                      /\ IsConfirmation(ev[3], t, "Theme updated successfully!")
                [] type = "submit_feedback" ->
                      /\ Len(ev) = 1
                      /\ IsConfirmation(ev[1], t, "Feedback received. Thank you!")
                [] OTHER ->
                      /\ ev = <<>>
                      /\ UNCHANGED <<threads, items, attachments, agent, turns>>]_vars

\* one request applied a theme, another sent the sales widget's download_report
C18_Witness ==
    \E r1, r2 \in RunIds :
        /\ runs[r1].pc = "acted" /\ runs[r1].action.type = "apply_theme_effect"
        /\ Len(runs[r1].events) = 3
        /\ runs[r1].events[2].data = runs[r1].action.payload
        /\ runs[r2].pc = "acted" /\ runs[r2].action.type = "download_report"
        /\ runs[r2].events = <<>>

\* ------------------------------------------------- resumption: claims
\* C19: resumption correctness: with the deterministic stub, the next turn of
\* a thread run in incremental mode (the new message plus the thread's
\* resumption token) and run in full-context mode over the same stored history
\* leave the same items in the store, for every history length, also past the
\* 15 items of the window.
C19_ResumptionCorrectness ==
    \A k \in DOMAIN threads :
        (threads[k].token # None /\ Len(items) + 2 <= MaxHistory) =>
            TurnItems(threads, items, threads[k].id, threads[k].token, conv.chain,
                      threads[k].user_id)
          = TurnItems(threads, items, threads[k].id, None, conv.chain, threads[k].user_id)

\* ------------------------------------------------ store: the thread list
NonIncreasing(rows) ==
    \A j, k \in DOMAIN rows : j < k => rows[j].created_at >= rows[k].created_at

\* C20: load_threads honours the requested order: every page, from whatever
\* cursor, lists threads by creation time descending when order is 'desc' and
\* by creation time ascending when order is 'asc'.
C20_LoadThreadsHonoursOrder ==
    \A u \in Users, l \in Limits, a \in ThreadIds \cup {None}, o \in Orders :
        LET page == load_threads(threads, l, a, o, u)
        IN  IF o = "desc" THEN NonIncreasing(page.data) ELSE NonDecreasing(page.data)

\* ------------------------------------------ turn: the thread record
StoredThread(ths, id) == RowOf(ths, id)

\* C21: no lost update between a turn and the background title task: in every
\* interleaving of turns on one thread with the title task an earlier turn
\* spawned, the stored last_response_id stays the token of the most recently
\* completed turn (the title task's save does not put an older one back), and
\* a title once stored is not cleared by a later turn's save_thread.
C21_NoLostUpdate ==
    [][\A r \in TurnIds :
          /\ (TitleSave(r) /\ turns[r].thread.id \in RowIds(threads)) =>
                StoredThread(threads', turns[r].thread.id).token
                    = StoredThread(threads, turns[r].thread.id).token
          /\ \A issued \in {None, ResponseId(r)} :
                (/\ Finish(r, issued)
                 /\ turns[r].thread.id \in RowIds(threads)
                 /\ StoredThread(threads, turns[r].thread.id).title # None) =>
                    StoredThread(threads', turns[r].thread.id).title # None]_vars

\* ------------------------------------------- walk with deletions: claims
\* C22: pagination under deletion: when the element the cursor names was
\* deleted between two page requests, the next page holds no element that an
\* earlier page of the same walk returned.
C22_NoRepeatAfterCursorDeleted ==
    [][(NextPage /\ walk.after \notin RowIds(items)) =>
          \A k \in (Len(walk.seen) + 1)..Len(walk'.seen) :
              walk'.seen[k] \notin Range(walk.seen)]_vars

\* ------------------------------------------- store: item and thread writes
\* what load_thread_items lists for a thread, oldest first
ItemsOf(its, t) == OrderByAsc(SelectSeq(its, LAMBDA r : r.thread_id = t))

\* C23: item writes are local to their thread: save_item(T2, item, user) and
\* add_thread_item(T2, item, user) change neither the set nor the content of
\* the items load_thread_items returns for any other thread T1, for every
\* item id, an id already present in T1 included.
C23_ItemWritesAreLocal ==
    [][\A u \in Users, t2 \in ThreadIds, i \in ItemIds, c \in Times, d \in Payloads :
          (SaveItem(u, t2, i, c, d) \/ AddThreadItem(u, t2, i, c, d)) =>
              \A t1 \in ThreadIds \ {t2} : ItemsOf(items', t1) = ItemsOf(items, t1)]_vars

\* ---------------------------------------------- delete_thread: claims
\* thread t is absent while items of t are present
Orphaned(ths, its, t) ==
    /\ t \notin RowIds(ths)
    /\ \E k \in DOMAIN its : its[k].thread_id = t

\* C24: delete_thread is transactional under interleaving: when
\* delete_thread(T) runs concurrently with other operations on the shared
\* connection, no other operation observes, and no commit makes durable, a
\* state in which thread T is absent while items of T are still present.
C24_DeleteThreadTransactional ==
    /\ db.observed.thread_present
    /\ \A t \in ThreadIds : ~Orphaned(db.durable.threads, db.durable.items, t)

\* ------------------------------------------- delete_thread: idempotence
\* C25: delete_thread is idempotent and scoped to the owner: for a thread id
\* that does not exist, or a thread owned by another user, it raises no error
\* and leaves every thread and every item unchanged; calling it twice has the
\* same effect as calling it once.
C25_DeleteThreadIdempotentOwnerScoped ==
    [][\A u \in Users, t \in ThreadIds :
          DeleteThread(u, t) =>
              /\ load_thread(threads, t, u).status # "ok" =>
                     threads' = threads /\ items' = items
              /\ delete_thread_threads(threads', t, u) = threads'
              /\ delete_thread_items(items', t, u) = items']_vars

\* ------------------------------------------------ history window: claims
\* inp is exactly the min(HistoryWindow, n) most recently created of the n
\* rows, oldest first
IsRecentWindow(inp, rows) ==
    /\ Len(inp) = Min(HistoryWindow, Len(rows))
    /\ \A j \in DOMAIN inp : inp[j] \in RowIds(rows)
    /\ \A j, k \in DOMAIN inp :
          j < k => RowOf(rows, inp[j]).created_at < RowOf(rows, inp[k]).created_at
    /\ \A id \in RowIds(rows) \ Range(inp) : \A j \in DOMAIN inp :
          RowOf(rows, id).created_at <= RowOf(rows, inp[j]).created_at

\* C26: full-context window: in full-context mode the input sent to the agent
\* is exactly the min(15, n) most recently created items of the thread, in
\* chronological (oldest first) order, n being the number of items stored for
\* the thread.
C26_FullContextWindow ==
    [][\A u \in TurnUsers :
          FullContextTurn(u, "t1") =>
              IsRecentWindow(SubSeq(conv'.chain, 1, Len(conv'.chain) - 1),
                             SelectSeq(WithUserMessage(items, "t1", u),
                                       LAMBDA r : r.thread_id = "t1"))]_vars

\* a full-context turn has just completed on more than 15 stored items: it
\* sent 15, and a row saved again before the turn, which rowid order puts
\* among the last 15, was too old to be sent
C26_Witness ==
    /\ Len(items) > HistoryWindow + 1
    /\ Len(conv.chain) = HistoryWindow + 1
    /\ items[Len(items)].id = conv.chain[Len(conv.chain)]
    /\ \E k \in 1..(Len(items) - 3) :
          /\ items[k].created_at > items[k + 1].created_at
          /\ items[k + 1].id \notin Range(conv.chain)

\* ---------------------------------------------- turn: the aborted turn
\* C27: a failed or cancelled turn leaves the thread record untouched: when
\* the agent stream raises or respond() is cancelled before the stream is
\* exhausted, respond() saves no thread and starts no title task, and the
\* stored last_response_id and title are what they were.
C27_AbortedTurnKeepsThread ==
    [][\A r \in TurnIds :
          (Fail(r) \/ Cancel(r)) =>
              /\ threads' = threads
              /\ turns'[r].title_task = "none"]_vars

\* on one thread, without a response id or a title, the first turn was
\* cancelled and the second failed; both user messages are stored
C27_Witness ==
    /\ turns[1].pc = "cancelled"
    /\ turns[2].pc = "failed"
    /\ Len(threads) = 1
    /\ threads[1].token = None /\ threads[1].title = None
    /\ \A r \in TurnIds : \E k \in DOMAIN items :
          items[k].id = MessageId(r) /\ items[k].thread_id = threads[1].id

\* ------------------------------------------ attachment resolution: claims
\* C28: attachment resolution is total and never fails the turn: for every
\* attachment, attachment_to_message_content returns the '[File not found]'
\* placeholder when no uploaded file has the attachment id as stem, an inline
\* image when the attachment is an image (by type or image/ mime type), the
\* decoded text when the bytes are valid UTF-8, and a '[Binary file ...]'
\* placeholder otherwise; it raises in none of these cases.
C28_ResolutionIsTotal ==
    [][\A x \in AttachmentIds, type \in AttachmentTypes, m \in MimeTypes, n \in FileNames :
          Resolve(Attachment(x, type, m, n)) =>
              LET files == {f \in uploads.dir : f.stem = x}
                  got == uploads'.resolved
              IN  /\ got.status = "ok"
                  /\ files = {} =>
                        got.content = InputText(<<"[File not found]">>)
                  /\ \A f \in files :
                        IF type = "image" \/ m[1] = "image"
                        THEN /\ got.content.type = "input_image"
                             /\ got.content.image_url[2] = m
                             /\ got.content.image_url[4] = b64encode(f.bytes)
                        ELSE IF Utf8Decode(f.bytes).ok
                        THEN /\ got.content.type = "input_text"
                             /\ got.content.text[2] = n
                             /\ got.content.text[4] = Utf8Decode(f.bytes).text
                        ELSE got.content = InputText(<<"[Binary file ", n, "]">>)]_vars

\* a file whose bytes are not valid UTF-8 was uploaded with a text content
\* type and resolved to the binary placeholder, while another upload is an
\* image
C28_Witness ==
    /\ uploads.resolved.status = "ok"
    /\ uploads.resolved.content.type = "input_text"
    /\ uploads.resolved.content.text[1] = "[Binary file "
    /\ \E f \in uploads.dir : ~Utf8Decode(f.bytes).ok
    /\ \E k \in DOMAIN attachments : attachments[k].data = "image"

====
